---- MODULE Spec2Model ----
(***************************************************************************)
(* Model of src/analyze_new.py: the pycparser-based SemanticErrorChecker   *)
(* (visit_Decl, visit_ID, visit_FuncCall, check_unused_vars, check_code),  *)
(* the libclang pass clang_analysis, preprocess_code and the entry point   *)
(* analyze_code.                                                           *)
(*                                                                         *)
(* The syntax tree handed to the visitor is produced node by node: each    *)
(* visit action draws the next node of the pre-order traversal and `ast`   *)
(* records the nodes visited so far.  The checker keeps no scope           *)
(* information; the scoped symbol table that the specification describes   *)
(* is computed from `ast` by the operator Sym and is used only to state    *)
(* the properties.                                                         *)
(*                                                                         *)
(* Arguments of a call are constants, so a call node has no identifier     *)
(* below it but its callee; an identifier argument is the same visit as a  *)
(* visit_ID that follows the call.  The answers of the two child tools     *)
(* (the clang preprocessor, libclang) are drawn by the action that calls   *)
(* them.  A run that ends with an uncaught exception ends the process.     *)
(***************************************************************************)
EXTENDS Integers, Sequences, FiniteSets, TLC

\* ------------------------------------------------------------------ bounds
MaxNodes == 4
MaxArgs == 2
MaxDepth == 2
MaxRuns == 2

\* ------------------------------------------------------------ input space
VarNames == {"x", "y"}
FuncNames == {"f"}
Names == VarNames \cup FuncNames

\* node.type of a Decl that declares an object
VarShapes == {"TypeDecl", "PtrDecl", "ArrayDecl"}

\* node.type.args of a FuncDecl, as pycparser builds it: None for `()`,
\* a ParamList holding one unnamed Typename for `(void)`, a ParamList of
\* Decl nodes for named parameters.  <<>> stands for None, the entry "void"
\* for the Typename of `(void)`, any other entry for a named parameter.
ParamLists == {<<>>, <<"void">>, <<"x">>}

\* result of the `clang -E` child process of preprocess_code
PreResults == {"ok", "nonzero", "notfound"}

VARIABLES
    pc,               \* position of the process: idle | parse | visit | returned | crashed
    run,              \* number of analyze_code calls started in this process
    ast,              \* nodes of the tree visited so far, in pre-order
    depth,            \* number of Compound bodies the traversal is inside
    defined_vars,     \* self.defined_vars: insertion-ordered {name: used}
    function_signatures, \* self.function_signatures: {name: arg_count}
    errors,           \* self.errors
    exc,              \* exception caught by check_code's except clause
    pycparser_errors, \* value returned by check_code
    stdout,           \* lines printed by the current analyze_code call
    Config_loaded,    \* clang.cindex.Config.loaded (process-wide)
    libAvailable,     \* whether the libclang file named at line 59 can be loaded
    log               \* how each analyze_code call of the process ended

vars == <<pc, run, ast, depth, defined_vars, function_signatures, errors, exc,
          pycparser_errors, stdout, Config_loaded, libAvailable, log>>

\* ------------------------------------------------------------- AST nodes
Node(kind, name, shape, params, nargs) ==
    [kind |-> kind, name |-> name, shape |-> shape, params |-> params, nargs |-> nargs]

\* ------------------------------------------------------------ diagnostics
\* f"Error: Variable '{var_name}' used before declaration."
Diag(kind, name, actual, expected) ==
    [kind |-> kind, name |-> name, actual |-> actual, expected |-> expected]

UndeclaredMsg(name) == Diag("UndeclaredVariable", name, 0, 0)

\* f"Error: Function '{func_name}' called with {actual_args} arguments (expected {expected_args})."
ArityMsg(name, actual, expected) == Diag("ArityMismatch", name, actual, expected)

\* f"Warning: Variable '{var}' defined but never used."
UnusedMsg(name) == Diag("UnusedVariable", name, 0, 0)

\* f"Error in parsing code with pycparser: {e}"
ParseFailureMsg(e) == Diag("ParseFailure", e, 0, 0)

\* f"UNDEFINED_VARIABLE: Variable '{node.display_name}' used before declaration. Location: {node.location}"
ClangMsg(name, loc) == Diag("UNDEFINED_VARIABLE", name, loc, 0)

Line(origin, d) == [origin |-> origin, d |-> d]

Note(text) == Line("note", Diag(text, "", 0, 0))

RECURSIVE PrintAll(_, _)
PrintAll(origin, ds) ==
    IF ds = <<>> THEN <<>>
    ELSE <<Line(origin, Head(ds))>> \o PrintAll(origin, Tail(ds))

\* ------------------------------------------------- the ordered dictionary
\* `var_name in self.defined_vars`
HasKey(dv, name) == \E i \in 1..Len(dv) : dv[i].name = name

\* `self.defined_vars[name] = used`: an existing key keeps its position
SetKey(dv, name, used) ==
    IF HasKey(dv, name)
    THEN [i \in 1..Len(dv) |-> IF dv[i].name = name
                               THEN [name |-> name, used |-> used] ELSE dv[i]]
    ELSE Append(dv, [name |-> name, used |-> used])

\* ---------------------------------------------------------- the visitor
\* visit_Decl, lines 14-15: only a Decl whose type is a TypeDecl is recorded
DeclareVar(dv, name, shape) ==
    IF shape = "TypeDecl" THEN SetKey(dv, name, FALSE) ELSE dv

\* line 18: len(node.type.args.params) if node.type.args else 0
ArgCount(params) == Len(params)

\* lines 16-19
DeclareFunc(fs, name, params) ==
    [n \in DOMAIN fs \cup {name} |-> IF n = name THEN ArgCount(params) ELSE fs[n]]

\* line 20 on a function Decl: generic_visit reaches the ParamList, whose
\* named parameters are Decl nodes with a TypeDecl type (visit_Decl again);
\* the Typename of `(void)` is no Decl
RECURSIVE DeclareParams(_, _)
DeclareParams(dv, params) ==
    IF params = <<>> THEN dv
    ELSE DeclareParams(IF Head(params) = "void" THEN dv
                       ELSE DeclareVar(dv, Head(params), "TypeDecl"),
                       Tail(params))

\* visit_ID, lines 23-27, on the dictionary
MarkUsed(dv, name) == IF HasKey(dv, name) THEN SetKey(dv, name, TRUE) ELSE dv

\* visit_ID, lines 23-27, on the error list
ReportUse(dv, errs, name) ==
    IF HasKey(dv, name) THEN errs ELSE Append(errs, UndeclaredMsg(name))

\* visit_FuncCall, lines 33-39
CheckArity(fs, errs, name, nargs) ==
    IF name \in DOMAIN fs /\ nargs # fs[name]
    THEN Append(errs, ArityMsg(name, nargs, fs[name]))
    ELSE errs

\* check_unused_vars, lines 43-44
RECURSIVE UnusedWarnings(_)
UnusedWarnings(dv) ==
    IF dv = <<>> THEN <<>>
    ELSE (IF Head(dv).used THEN <<>> ELSE <<UnusedMsg(Head(dv).name)>>)
         \o UnusedWarnings(Tail(dv))

\* check_code, lines 53-54: what the except clause returns
ExceptReturn_keeping(errs, e) == Append(errs, ParseFailureMsg(e))

ExceptReturn(errs, e) == <<ParseFailureMsg(e)>>

\* SemanticErrorChecker.__init__, lines 8-11
FreshChecker ==
    /\ defined_vars' = <<>>
    /\ function_signatures' = [n \in {} |-> 0]
    /\ errors' = <<>>

Walking == pc = "visit" /\ Len(ast) < MaxNodes

Frame == UNCHANGED <<run, stdout, Config_loaded, libAvailable, log>>

\* check_code, lines 47-49: the parser either builds the tree or raises
check_code_parse(ok) ==
    /\ pc = "parse"
    /\ IF ok
       THEN /\ pc' = "visit"
            /\ UNCHANGED <<exc, pycparser_errors>>
       ELSE /\ pc' = "returned"
            /\ exc' = "ParseError"
            /\ pycparser_errors' = ExceptReturn(errors, "ParseError")
    /\ UNCHANGED <<ast, depth, defined_vars, function_signatures, errors>>
    /\ Frame

\* visit_Decl on the Decl of an object (plain, pointer or array)
visit_Decl(name, shape) ==
    /\ Walking
    /\ ast' = Append(ast, Node("Decl", name, shape, <<>>, 0))
    /\ defined_vars' = DeclareVar(defined_vars, name, shape)
    /\ UNCHANGED <<pc, depth, function_signatures, errors, exc, pycparser_errors>>
    /\ Frame

\* visit_Decl on a function prototype: the signature, then the parameters
visit_Decl_func(name, params) ==
    /\ Walking
    /\ ast' = Append(ast, Node("Decl", name, "FuncDecl", params, 0))
    /\ function_signatures' = DeclareFunc(function_signatures, name, params)
    /\ defined_vars' = DeclareParams(defined_vars, params)
    /\ UNCHANGED <<pc, depth, errors, exc, pycparser_errors>>
    /\ Frame

\* generic_visit of a FuncDef: its Decl (visit_Decl), then into its body
visit_FuncDef(name, params) ==
    /\ Walking
    /\ depth = 0
    /\ ast' = Append(ast, Node("FuncDef", name, "FuncDecl", params, 0))
    /\ function_signatures' = DeclareFunc(function_signatures, name, params)
    /\ defined_vars' = DeclareParams(defined_vars, params)
    /\ depth' = depth + 1
    /\ UNCHANGED <<pc, errors, exc, pycparser_errors>>
    /\ Frame

\* visit_ID on an identifier that is not the callee of a call
visit_ID(name) ==
    /\ Walking
    /\ ast' = Append(ast, Node("ID", name, "", <<>>, 0))
    /\ errors' = ReportUse(defined_vars, errors, name)
    /\ defined_vars' = MarkUsed(defined_vars, name)
    /\ UNCHANGED <<pc, depth, function_signatures, exc, pycparser_errors>>
    /\ Frame

\* visit_FuncCall with an identifier callee and constant arguments: the
\* arity check, then generic_visit, which visits the callee ID (visit_ID)
visit_FuncCall(name, nargs) ==
    /\ Walking
    /\ ast' = Append(ast, Node("FuncCall", name, "", <<>>, nargs))
    /\ errors' = ReportUse(defined_vars,
                           CheckArity(function_signatures, errors, name, nargs),
                           name)
    /\ defined_vars' = MarkUsed(defined_vars, name)
    /\ UNCHANGED <<pc, depth, function_signatures, exc, pycparser_errors>>
    /\ Frame

\* generic_visit entering a nested Compound
visit_Compound ==
    /\ Walking
    /\ depth > 0
    /\ depth < MaxDepth
    /\ ast' = Append(ast, Node("Compound", "", "", <<>>, 0))
    /\ depth' = depth + 1
    /\ UNCHANGED <<pc, defined_vars, function_signatures, errors, exc, pycparser_errors>>
    /\ Frame

\* generic_visit returning from a Compound (a block or a function body)
leave_Compound ==
    /\ Walking
    /\ depth > 0
    /\ ast' = Append(ast, Node("EndCompound", "", "", <<>>, 0))
    /\ depth' = depth - 1
    /\ UNCHANGED <<pc, defined_vars, function_signatures, errors, exc, pycparser_errors>>
    /\ Frame

\* an exception raised while self.visit(ast) runs, caught at lines 53-54
visit_raises ==
    /\ pc = "visit"
    /\ pc' = "returned"
    /\ exc' = "VisitError"
    /\ pycparser_errors' = ExceptReturn(errors, "VisitError")
    /\ UNCHANGED <<ast, depth, defined_vars, function_signatures, errors>>
    /\ Frame

\* check_code, lines 51-52: the traversal is over
check_code_return ==
    /\ pc = "visit"
    /\ depth = 0
    /\ pc' = "returned"
    /\ errors' = errors \o UnusedWarnings(defined_vars)
    /\ pycparser_errors' = errors'
    /\ UNCHANGED <<ast, depth, defined_vars, function_signatures, exc>>
    /\ Frame

\* ------------------------------------------------------ the libclang pass
\* nodes of the tree that libclang sees as reference expressions
RefLocs(tree) == {i \in 1..Len(tree) : tree[i].kind \in {"ID", "FuncCall"}}

\* traverse_ast, lines 67-77: one message per DECL_REF_EXPR whose
\* `referenced` is None, in traversal order; which references libclang
\* leaves unresolved is its own decision (`found`)
RECURSIVE TraverseAst(_, _, _)
TraverseAst(tree, found, i) ==
    IF i > Len(tree) THEN <<>>
    ELSE (IF i \in found THEN <<ClangMsg(tree[i].name, i)>> ELSE <<>>)
         \o TraverseAst(tree, found, i + 1)

\* clang_analysis, lines 59-63: "ok", or the call that raises.
\* Config.set_library_file raises once the library has been loaded;
\* Index.create loads it; index.parse raises when the file cannot be parsed
ClangSetup(loaded, available, tuOk) ==
    IF loaded THEN "set_library_file"
    ELSE IF ~available THEN "Index.create"
    ELSE IF ~tuOk THEN "index.parse"
    ELSE "ok"

\* analyze_code, lines 136-140
ReportInternal(found) ==
    IF found = <<>> THEN <<Note("No issues found by pycparser.")>>
    ELSE PrintAll("internal", found)

\* analyze_code, lines 145-149
ReportClang(found) ==
    IF found = <<>> THEN <<Note("No issues found by Clang.")>>
    ELSE PrintAll("external", found)

LogEntry(pre, tuOk, ext, outcome) ==
    [pre |-> pre, tuOk |-> tuOk, ext |-> ext, outcome |-> outcome]

\* analyze_code, lines 114-135: preprocess_code, then a new checker.
\* A non-zero exit is caught in preprocess_code (lines 109-111) and the run
\* returns; a clang executable that cannot be started raises
\* FileNotFoundError, which nothing catches.
analyze_code_begin(pre) ==
    /\ pc = "idle"
    /\ run < MaxRuns
    /\ run' = run + 1
    /\ ast' = <<>>
    /\ depth' = 0
    /\ exc' = "none"
    /\ pycparser_errors' = <<>>
    /\ FreshChecker
    /\ CASE pre = "ok" ->
              /\ pc' = "parse"
              /\ stdout' = <<Note("Preprocessing code for pycparser..."),
                             Note("pycparser Analysis:")>>
              /\ log' = log
         [] pre = "nonzero" ->
              /\ pc' = "idle"
              /\ stdout' = <<Note("Preprocessing code for pycparser..."),
                             Note("Preprocessing failed"),
                             Note("Failed to preprocess the code.")>>
              /\ log' = Append(log, LogEntry(pre, TRUE, "not started", "returned early"))
         [] pre = "notfound" ->
              /\ pc' = "crashed"
              /\ stdout' = <<Note("Preprocessing code for pycparser...")>>
              /\ log' = Append(log, LogEntry(pre, TRUE, "not started", "raised"))
    /\ UNCHANGED <<Config_loaded, libAvailable>>

\* analyze_code, lines 136-151: print the internal findings, run
\* clang_analysis, print its findings
analyze_code_finish(tuOk, found) ==
    /\ pc = "returned"
    /\ found \subseteq RefLocs(ast)
    /\ LET setup == ClangSetup(Config_loaded, libAvailable, tuOk)
           shown == stdout \o ReportInternal(pycparser_errors)
                           \o <<Note("Clang Analysis:")>>
       IN  IF setup = "ok"
           THEN /\ pc' = "idle"
                /\ Config_loaded' = TRUE
                /\ stdout' = shown \o ReportClang(TraverseAst(ast, found, 1))
                                   \o <<Note("Analysis Complete.")>>
                /\ log' = Append(log, LogEntry("ok", tuOk, "ran", "complete"))
           ELSE /\ found = {}
                /\ pc' = "crashed"
                /\ Config_loaded' = (Config_loaded \/ setup = "index.parse")
                /\ stdout' = shown
                /\ log' = Append(log, LogEntry("ok", tuOk, setup, "raised"))
    /\ UNCHANGED <<run, ast, depth, defined_vars, function_signatures, errors,
                   exc, pycparser_errors, libAvailable>>

\* ------------------------------------------------------- specifications
InitChecker ==
    /\ ast = <<>>
    /\ depth = 0
    /\ defined_vars = <<>>
    /\ function_signatures = [n \in {} |-> 0]
    /\ errors = <<>>
    /\ exc = "none"
    /\ pycparser_errors = <<>>

\* a process in which analyze_code has not been called yet
Init ==
    /\ pc = "idle"
    /\ run = 0
    /\ InitChecker
    /\ stdout = <<>>
    /\ Config_loaded = FALSE
    /\ libAvailable \in BOOLEAN
    /\ log = <<>>

Visit ==
    \/ \E name \in VarNames, shape \in VarShapes : visit_Decl(name, shape)
    \/ \E name \in FuncNames, params \in ParamLists : visit_Decl_func(name, params)
    \/ \E name \in FuncNames, params \in ParamLists : visit_FuncDef(name, params)
    \/ \E name \in VarNames : visit_ID(name)
    \/ \E name \in FuncNames, nargs \in 0..MaxArgs : visit_FuncCall(name, nargs)
    \/ visit_Compound
    \/ leave_Compound
    \/ visit_raises

CheckCode ==
    \/ \E ok \in BOOLEAN : check_code_parse(ok)
    \/ Visit
    \/ check_code_return

Next ==
    \/ \E pre \in PreResults : analyze_code_begin(pre)
    \/ CheckCode
    \/ \E tuOk \in BOOLEAN, found \in SUBSET (1..MaxNodes) : analyze_code_finish(tuOk, found)

Spec == Init /\ [][Next]_vars

\* one call of check_code on a new checker, as analyze_code makes it at
\* lines 134-135
InitCheck ==
    /\ pc = "parse"
    /\ run = 1
    /\ InitChecker
    /\ stdout = <<Note("Preprocessing code for pycparser..."),
                  Note("pycparser Analysis:")>>
    /\ Config_loaded = FALSE
    /\ libAvailable = TRUE
    /\ log = <<>>

SpecCheck == InitCheck /\ [][CheckCode]_vars

\* ------------------------------------------------------------------------
\* The scoped symbol table of the specification (enterScope, exitScope,
\* declare, resolve, markReferenced), computed over the visited nodes.  A
\* declaration is named by the position of its node; the parameter of the
\* function declared at node i is named -i.
\* ------------------------------------------------------------------------
Abs(k) == IF k < 0 THEN -k ELSE k

DeclName(tree, id) == IF id > 0 THEN tree[id].name ELSE tree[-id].params[1]

DeclRole(tree, id) ==
    IF id < 0 THEN "parameter"
    ELSE IF tree[id].shape = "FuncDecl" THEN "function" ELSE "variable"

\* declarations of the parameters of the function declared at node i
ParamDecls(tree, i) ==
    IF tree[i].params # <<>> /\ tree[i].params[1] # "void" THEN {-i} ELSE {}

\* number of formal parameters a parameter list declares: `()` and `(void)`
\* declare none
DeclaredParams(params) ==
    Cardinality({k \in 1..Len(params) : params[k] # "void"})

EmptyTable == [stack |-> <<{}>>, closed |-> {}, refd |-> {}]

\* resolve: the innermost scope that declares the name, 0 when none does
Resolve(tree, st, name) ==
    LET holds(s) == {id \in st.stack[s] : DeclName(tree, id) = name}
        levels == {s \in 1..Len(st.stack) : holds(s) # {}}
    IN  IF levels = {} THEN 0
        ELSE LET top == CHOOSE s \in levels : \A o \in levels : o <= s
             IN  CHOOSE id \in holds(top) : \A o \in holds(top) : Abs(o) <= Abs(id)

\* declare in the current scope; a redeclaration replaces the entry
Declare(tree, st, id) ==
    LET top == Len(st.stack)
        kept == {o \in st.stack[top] : DeclName(tree, o) # DeclName(tree, id)}
    IN  [st EXCEPT !.stack[top] = kept \cup {id}]

EnterScope(st, ids) == [st EXCEPT !.stack = Append(st.stack, ids)]

ExitScope(st) ==
    [st EXCEPT !.stack = SubSeq(st.stack, 1, Len(st.stack) - 1),
               !.closed = st.closed \cup st.stack[Len(st.stack)]]

MarkReferenced(tree, st, name) ==
    LET id == Resolve(tree, st, name)
    IN  IF id = 0 THEN st ELSE [st EXCEPT !.refd = st.refd \cup {id}]

SymStep(tree, st, i) ==
    LET n == tree[i]
    IN  CASE n.kind = "Decl" /\ n.shape # "FuncDecl" -> Declare(tree, st, i)
          [] n.kind = "Decl" /\ n.shape = "FuncDecl" ->
                 LET d == Declare(tree, st, i)
                 IN  [d EXCEPT !.closed = d.closed \cup ParamDecls(tree, i)]
          [] n.kind = "FuncDef" -> EnterScope(Declare(tree, st, i), ParamDecls(tree, i))
          [] n.kind = "Compound" -> EnterScope(st, {})
          [] n.kind = "EndCompound" -> ExitScope(st)
          [] n.kind = "ID" -> MarkReferenced(tree, st, n.name)
          [] OTHER -> st

\* the table after the first k nodes
RECURSIVE Sym(_, _)
Sym(tree, k) == IF k = 0 THEN EmptyTable ELSE SymStep(tree, Sym(tree, k - 1), k)

\* whether the name resolves at node i
VisibleAt(tree, i, name) == Resolve(tree, Sym(tree, i - 1), name) # 0

\* every declaration the table holds or held
Declared(st) == st.closed \cup UNION {st.stack[s] : s \in 1..Len(st.stack)}

\* variable declarations never referenced
UnreferencedVars(tree, name) ==
    LET st == Sym(tree, Len(tree))
    IN  {id \in Declared(st) \ st.refd :
            DeclRole(tree, id) = "variable" /\ DeclName(tree, id) = name}

\* the function declaration in force at node i: the last one visited before
PriorFuncDecl(tree, i) ==
    LET js == {j \in 1..(i - 1) : /\ tree[j].kind \in {"Decl", "FuncDef"}
                                  /\ tree[j].shape = "FuncDecl"
                                  /\ tree[j].name = tree[i].name}
    IN  IF js = {} THEN 0 ELSE CHOOSE j \in js : \A o \in js : o <= j

\* the ArityMismatch diagnostics the calls of the tree call for, in order
RECURSIVE ArityExpected(_, _)
ArityExpected(tree, i) ==
    IF i > Len(tree) THEN <<>>
    ELSE LET j == IF tree[i].kind = "FuncCall" THEN PriorFuncDecl(tree, i) ELSE 0
             want == IF j = 0 THEN 0 ELSE DeclaredParams(tree[j].params)
         IN  (IF j # 0 /\ tree[i].nargs # want
              THEN <<ArityMsg(tree[i].name, tree[i].nargs, want)>> ELSE <<>>)
             \o ArityExpected(tree, i + 1)

IsKind(k, d) == d.kind = k

OfKind(ds, k) == SelectSeq(ds, LAMBDA d : IsKind(k, d))

Count(ds, d) == Cardinality({i \in 1..Len(ds) : ds[i] = d})

Printed(origin) == {i \in 1..Len(stdout) : stdout[i].origin = origin}

RunOver == pc \in {"idle", "crashed"} /\ log # <<>>

LastRun == log[Len(log)]

NormalReturn == pc = "returned" /\ exc = "none"

\* ------------------------------------------------------------------------
\* Properties
\* ------------------------------------------------------------------------

\* C1: the internal pass never reports the callee identifier of a call as
\* used before declaration: for every name, self.errors holds at most as
\* many UndeclaredVariable diagnostics as the tree has references to that
\* name that are not the callee of a call.
C1_CalleeNeverReported ==
    \A n \in Names :
        Count(errors, UndeclaredMsg(n))
            <= Cardinality({i \in 1..Len(ast) : ast[i].kind = "ID" /\ ast[i].name = n})

\* C2: the ArityMismatch diagnostics are exactly those of the calls whose
\* argument count differs from the number of formal parameters of the
\* function declaration visited before the call, `(void)` and `()` declaring
\* none, each carrying the actual and the expected count.
C2_ArityIffCountsDiffer ==
    OfKind(errors, "ArityMismatch") = ArityExpected(ast, 1)

\* C3: after the full traversal the report holds, for every name, exactly one
\* UnusedVariable warning per variable declaration of that name that was
\* never referenced, and none for parameters and function names.
C3_OneWarningPerUnusedDeclaration ==
    NormalReturn =>
        \A n \in Names :
            Count(pycparser_errors, UnusedMsg(n))
                = Cardinality(UnreferencedVars(ast, n))

\* C4: a declaration is visible only in its scope and the scopes nested in
\* it, until that scope closes: every reference to a name that no open scope
\* declares is reported as UndeclaredVariable, and a declaration that a
\* reference did not resolve to (an outer one that is shadowed, one of a
\* closed scope) stays unreferenced and is warned about.
C4_ScopedVisibility ==
    /\ \A n \in Names :
          Count(errors, UndeclaredMsg(n))
              >= Cardinality({i \in 1..Len(ast) : /\ ast[i].kind = "ID"
                                                   /\ ast[i].name = n
                                                   /\ ~VisibleAt(ast, i, n)})
    /\ NormalReturn =>
          \A n \in Names :
              (\E id \in UnreferencedVars(ast, n) : ast[id].shape = "TypeDecl")
                  => Count(pycparser_errors, UnusedMsg(n)) >= 1

\* C5: every UndeclaredVariable diagnostic names an identifier with no
\* visible declaration of any shape at the reference: for every name there
\* are at most as many such diagnostics as references to the name at which
\* it does not resolve.
C5_ReportedOnlyWhenUndeclared ==
    \A n \in Names :
        Count(errors, UndeclaredMsg(n))
            <= Cardinality({i \in RefLocs(ast) : /\ ast[i].name = n
                                                  /\ ~VisibleAt(ast, i, n)})

\* C6: when check_code fails with an exception (the parser raises, or the
\* traversal does) it returns exactly one diagnostic, the parse failure, and
\* none of the diagnostics collected before the failure.
C6_FailureReturnsOnlyParseFailure ==
    (pc = "returned" /\ exc # "none") =>
        /\ Len(pycparser_errors) = 1
        /\ pycparser_errors[1].kind = "ParseFailure"
        /\ \A i \in 1..Len(pycparser_errors) :
              pycparser_errors[i].kind
                  \notin {"UndeclaredVariable", "ArityMismatch", "UnusedVariable"}

\* C6 witness: the traversal raised after diagnostics had been collected
C6_Witness ==
    /\ pc = "returned"
    /\ exc = "VisitError"
    /\ \E i \in 1..Len(errors) : errors[i].kind = "UndeclaredVariable"
    /\ \E i \in 1..Len(errors) : errors[i].kind = "ArityMismatch"

\* C7: when the external toolchain cannot run, the run still reaches its
\* normal end, having printed the internal diagnostics unchanged, no external
\* diagnostic and exactly one ExternalToolUnavailable note.
C7_ExternalFailureDoesNotAbort ==
    (RunOver /\ LastRun.ext \notin {"ran", "not started"}) =>
        /\ pc = "idle"
        /\ LastRun.outcome = "complete"
        /\ [i \in 1..Cardinality(Printed("internal")) |->
               stdout[CHOOSE k \in Printed("internal") :
                          Cardinality({j \in Printed("internal") : j <= k}) = i].d]
             = pycparser_errors
        /\ Printed("external") = {}
        /\ Count(stdout, Note("ExternalToolUnavailable")) = 1

\* C8: when preprocessing fails, whether the preprocessor exits non-zero or
\* cannot be started, the failure is surfaced as a preprocessing failure and
\* the run stops before either pass is started.
C8_PreprocessingFailureShortCircuits ==
    (RunOver /\ LastRun.pre # "ok") =>
        /\ Count(stdout, Note("Preprocessing failed")) = 1
        /\ LastRun.ext = "not started"
        /\ Count(stdout, Note("pycparser Analysis:")) = 0
        /\ Count(stdout, Note("Clang Analysis:")) = 0

\* C9: a finding that both passes report for the same identifier on the same
\* line appears once in the final output: for every name the output holds at
\* most one used-before-declaration finding per line that references it.
C9_FindingsDeduplicated ==
    (RunOver /\ LastRun.outcome = "complete") =>
        \A n \in Names :
            Cardinality({i \in Printed("internal") : stdout[i].d = UndeclaredMsg(n)})
              + Cardinality({i \in Printed("external") : stdout[i].d.name = n})
                <= Cardinality({i \in RefLocs(ast) : ast[i].name = n})

\* C10: no state of one analyze_code run is visible to a later run: a run
\* for which the preprocessor and libclang answer as they did for the first
\* run of the process ends as the first run did (how a run ends does not
\* depend on the source text: check_code catches every exception).
C10_RunsIndependent ==
    \A i \in 1..Len(log) :
        (log[i].pre = log[1].pre /\ log[i].tuOk = log[1].tuOk)
            => log[i].outcome = log[1].outcome

====
